---------------------------- MODULE Spec2Model ----------------------------
(***************************************************************************)
(* A model of lilgrep (src/src/lib.rs, src/src/main.rs): Config::build,    *)
(* run, search, search_case_insensitive and main.                          *)
(*                                                                         *)
(* A Rust string is a sequence of characters; a character is a one-element *)
(* TLA+ string.  The three Greek letters that std's to_lowercase treats    *)
(* specially are written by their code points.                             *)
(***************************************************************************)
EXTENDS Integers, Sequences, FiniteSets, TLC

\* ------------------------------------------------------------------ bounds
MaxContentsLen == 4
MaxQueryLen == 2
MaxArgs == 4
MaxFileLen == 3

\* -------------------------------------------------------------- characters
LF == "\n"
CR == "\r"
CapitalSigma == "U+03A3"
SmallSigma == "U+03C3"
FinalSigma == "U+03C2"

\* The characters the checked texts and queries are made of.
Char == {"a", "A", CapitalSigma, LF, CR}

\* Strings of at most n characters.
Strings(n) == UNION {[1..k -> Char] : k \in 0..n}

\* The literal "--ignore-case" of Config::build.
IgnoreCaseFlag == <<"-", "-", "i", "g", "n", "o", "r", "e", "-", "c", "a", "s", "e">>

\* --------------------------------------------------------- std: str::lines
\* Index of the first line feed of s, 0 when there is none.
FirstLF(s) ==
    IF \E i \in 1..Len(s) : s[i] = LF
    THEN CHOOSE i \in 1..Len(s) : s[i] = LF /\ \A j \in 1..(i - 1) : s[j] # LF
    ELSE 0

RECURSIVE SplitInclusive(_)
\* str::split_inclusive('\n'): pieces that each end with the line feed that
\* closes them; a last piece without one is yielded only when not empty.
SplitInclusive(s) ==
    IF s = <<>> THEN <<>>
    ELSE LET k == FirstLF(s)
         IN IF k = 0 THEN <<s>>
            ELSE <<SubSeq(s, 1, k)>> \o SplitInclusive(SubSeq(s, k + 1, Len(s)))

\* Mutant of StripLineEnding: only the line feed is taken off.
StripLineFeedOnly(piece) ==
    IF piece = <<>> \/ piece[Len(piece)] # LF THEN piece
    ELSE SubSeq(piece, 1, Len(piece) - 1)

\* A piece of split_inclusive, as str::lines yields it: without its line
\* feed, and then without one carriage return before that line feed.
StripLineEnding(piece) ==
    IF piece = <<>> \/ piece[Len(piece)] # LF THEN piece
    ELSE LET line == SubSeq(piece, 1, Len(piece) - 1)
         IN IF line = <<>> \/ line[Len(line)] # CR THEN line
            ELSE SubSeq(line, 1, Len(line) - 1)

\* contents.lines()
Lines(s) ==
    LET pieces == SplitInclusive(s)
    IN [i \in 1..Len(pieces) |-> StripLineEnding(pieces[i])]

\* ------------------------------------------------------ std: str::contains
StartsWith(hay, needle) ==
    /\ Len(needle) <= Len(hay)
    /\ SubSeq(hay, 1, Len(needle)) = needle

RECURSIVE ContainsFrom(_, _)
\* The needle starts at the head of hay or somewhere in its tail.
ContainsFrom(hay, needle) ==
    IF StartsWith(hay, needle) THEN TRUE
    ELSE IF hay = <<>> THEN FALSE
    ELSE ContainsFrom(Tail(hay), needle)

\* Mutant of Contains: the needle is looked for at the start only.
ContainsAtStart(hay, needle) == StartsWith(hay, needle)

\* Mutant of Contains: nothing is found in an empty haystack.
ContainsNonEmptyHay(hay, needle) == hay # <<>> /\ ContainsFrom(hay, needle)

\* line.contains(query)
Contains(hay, needle) == ContainsFrom(hay, needle)

\* -------------------------------------------------- std: str::to_lowercase
\* Unicode's Cased and Case_Ignorable properties, on the characters that
\* occur here (no character of Char is Case_Ignorable).
Cased(c) ==
    c \in {"a", "A", CapitalSigma, SmallSigma, FinalSigma,
           "i", "g", "n", "o", "r", "e", "c", "s"}

Case_Ignorable(c) == c \in {".", ":"}

\* char::to_lowercase for every character but the capital sigma.
ToLowerChar(c) == IF c = "A" THEN "a" ELSE c

Reverse(s) == [i \in 1..Len(s) |-> s[Len(s) + 1 - i]]

RECURSIVE CaseIgnorableThenCased(_)
\* case_ignorable_then_cased: skip the Case_Ignorable characters, then ask
\* whether the next one is Cased.
CaseIgnorableThenCased(s) ==
    IF s = <<>> THEN FALSE
    ELSE IF Case_Ignorable(Head(s)) THEN CaseIgnorableThenCased(Tail(s))
    ELSE Cased(Head(s))

\* map_uppercase_sigma: the capital sigma at index i of `from` becomes the
\* final sigma when it ends a word, the small sigma otherwise.
MapUppercaseSigma(from, i) ==
    LET is_word_final ==
            /\ CaseIgnorableThenCased(Reverse(SubSeq(from, 1, i - 1)))
            /\ ~CaseIgnorableThenCased(SubSeq(from, i + 1, Len(from)))
    IN IF is_word_final THEN FinalSigma ELSE SmallSigma

\* str::to_lowercase
ToLowercase(s) ==
    [i \in 1..Len(s) |->
        IF s[i] = CapitalSigma THEN MapUppercaseSigma(s, i)
        ELSE ToLowerChar(s[i])]

\* ------------------------------------------------------------------ lib.rs
\* pub fn search: lines().filter(|line| line.contains(query)).collect()
search(q, c) ==
    SelectSeq(Lines(c), LAMBDA line : Contains(line, q))

\* Mutant of search_case_insensitive: the lowercased lines are returned.
search_case_insensitive_lowered(q, c) ==
    LET lq == ToLowercase(q)
        lowered == [i \in 1..Len(Lines(c)) |-> ToLowercase(Lines(c)[i])]
    IN SelectSeq(lowered, LAMBDA line : Contains(line, lq))

\* pub fn search_case_insensitive
search_case_insensitive(q, c) ==
    LET lq == ToLowercase(q)
    IN SelectSeq(Lines(c), LAMBDA line : Contains(ToLowercase(line), lq))

\* Result<T, E>
Ok(v) == [tag |-> "Ok", val |-> v]
Err(e) == [tag |-> "Err", val |-> e]

\* The process environment's IGNORE_CASE: unset, set to a string (the empty
\* one or another), or set to bytes that are not valid Unicode.
EnvStates ==
    {<<"unset", "">>, <<"unicode", "">>, <<"unicode", "1">>,
     <<"not_unicode", "\\xFF">>}

\* env::var(key): the value when the variable is set to valid Unicode,
\* Err(NotPresent) when unset, Err(NotUnicode(..)) when set to anything else.
EnvVar(e) ==
    IF e[1] = "unset" THEN Err("NotPresent")
    ELSE IF e[1] = "not_unicode" THEN Err("NotUnicode")
    ELSE Ok(e[2])

\* Iterator::next on the remaining arguments: (item, rest).
IterNext(it) ==
    IF it = <<>> THEN <<Err("None"), <<>>>> ELSE <<Ok(Head(it)), Tail(it)>>

RECURSIVE ScanFlags(_, _)
\* for arg in args { if arg.eq("--ignore-case") { ignore_case = true; } }
ScanFlags(it, ignore_case) ==
    IF it = <<>> THEN ignore_case
    ELSE ScanFlags(Tail(it), IF Head(it) = IgnoreCaseFlag THEN TRUE ELSE ignore_case)

\* Mutant of Build: the arguments are not reversed.
BuildNotReversed(a, e) ==
    LET skipped == IterNext(a)[2]
        first == IterNext(skipped)
        second == IterNext(first[2])
    IN IF first[1].tag # "Ok" THEN Err("Didn't get a file path")
       ELSE IF second[1].tag # "Ok" THEN Err("Didn't get a query string")
       ELSE Ok([query |-> second[1].val,
                file_path |-> first[1].val,
                ignore_case |-> ScanFlags(second[2], EnvVar(e).tag = "Ok")])

\* Mutant of Build: the program name is not skipped.
BuildKeepProgramName(a, e) ==
    LET rev == Reverse(a)
        first == IterNext(rev)
        second == IterNext(first[2])
    IN IF first[1].tag # "Ok" THEN Err("Didn't get a file path")
       ELSE IF second[1].tag # "Ok" THEN Err("Didn't get a query string")
       ELSE Ok([query |-> second[1].val,
                file_path |-> first[1].val,
                ignore_case |-> ScanFlags(second[2], EnvVar(e).tag = "Ok")])

\* Config::build(args), with the IGNORE_CASE of the environment it reads
Build(a, e) ==
    LET skipped == IterNext(a)[2]
        rev == Reverse(skipped)
        first == IterNext(rev)
        second == IterNext(first[2])
    IN IF first[1].tag # "Ok" THEN Err("Didn't get a file path")
       ELSE IF second[1].tag # "Ok" THEN Err("Didn't get a query string")
       ELSE Ok([query |-> second[1].val,
                file_path |-> first[1].val,
                ignore_case |-> ScanFlags(second[2], EnvVar(e).tag = "Ok")])

\* Mutant of RunSearch: the two branches are swapped.
RunSearchSwapped(cfg, text) ==
    IF cfg.ignore_case THEN search(cfg.query, text)
    ELSE search_case_insensitive(cfg.query, text)

\* run's choice of the search function
RunSearch(cfg, text) ==
    IF cfg.ignore_case THEN search_case_insensitive(cfg.query, text)
    ELSE search(cfg.query, text)

\* println!("{line}"): the line and a line feed
Println(out, line) == out \o line \o <<LF>>

\* eprintln! of a prefix and a message
Eprintln(err, prefix, msg) == Append(err, <<prefix, msg>>)

\* ------------------------------------------------------------------- state
VARIABLES
    args,       \* env::args(): the program name and its arguments
    env,        \* the environment's IGNORE_CASE
    file,       \* what fs::read_to_string gives for the path it is asked
    pc,         \* where the program is
    built,      \* the Result of Config::build
    query,      \* the query a search function is called with
    contents,   \* the text being searched
    results,    \* the Vec a search function returned
    printed,    \* how many of results the for loop of run has printed
    stdout,     \* characters written to standard output
    stderr,     \* messages written to standard error
    status,     \* the exit status, -1 while the process runs
    reads       \* how many times the file was opened and read

vars ==
    <<args, env, file, pc, built, query, contents, results, printed,
      stdout, stderr, status, reads>>

Running == 0 - 1

\* ------------------------------------------------- the two search functions
InitSearch ==
    /\ query \in Strings(MaxQueryLen)
    /\ contents \in Strings(MaxContentsLen)
    /\ pc = "start"
    /\ results = <<>>
    /\ args = <<>> /\ env = <<"unset", "">> /\ file = Err("")
    /\ built = Err("") /\ printed = 0
    /\ stdout = <<>> /\ stderr = <<>> /\ status = Running /\ reads = 0

CallSearch ==
    /\ pc = "start"
    /\ results' = search(query, contents)
    /\ pc' = "search"
    /\ UNCHANGED <<args, env, file, built, query, contents, printed,
                   stdout, stderr, status, reads>>

CallSearchCaseInsensitive ==
    /\ pc = "start"
    /\ results' = search_case_insensitive(query, contents)
    /\ pc' = "search_case_insensitive"
    /\ UNCHANGED <<args, env, file, built, query, contents, printed,
                   stdout, stderr, status, reads>>

NextSearch == CallSearch \/ CallSearchCaseInsensitive

SpecSearch == InitSearch /\ [][NextSearch]_vars

\* ------------------------------------------------------------ Config::build
ArgTokens == {<<>>, <<"a">>, <<"A">>, IgnoreCaseFlag}

ArgLists(tokens, n) == UNION {[1..k -> tokens] : k \in 0..n}

InitBuild ==
    /\ args \in ArgLists(ArgTokens, MaxArgs)
    /\ env \in EnvStates
    /\ pc = "start"
    /\ built = Err("")
    /\ query = <<>> /\ contents = <<>> /\ results = <<>> /\ file = Err("")
    /\ printed = 0
    /\ stdout = <<>> /\ stderr = <<>> /\ status = Running /\ reads = 0

CallBuild ==
    /\ pc = "start"
    /\ built' = Build(args, env)
    /\ pc' = "built"
    /\ UNCHANGED <<args, env, file, query, contents, results, printed,
                   stdout, stderr, status, reads>>

NextBuild == CallBuild

SpecBuild == InitBuild /\ [][NextBuild]_vars

\* --------------------------------------------------------------------- main
MainTokens == {<<>>, <<"A">>, IgnoreCaseFlag}
FileChar == {"a", "A", LF}
FileTexts == UNION {[1..k -> FileChar] : k \in 0..MaxFileLen}
ReadErrors ==
    {"No such file or directory (os error 2)",
     "stream did not contain valid UTF-8"}

Init ==
    /\ args \in ArgLists(MainTokens, MaxArgs)
    /\ env \in EnvStates
    /\ file \in {Ok(t) : t \in FileTexts} \cup {Err(e) : e \in ReadErrors}
    /\ pc = "main"
    /\ built = Err("")
    /\ query = <<>> /\ contents = <<>> /\ results = <<>>
    /\ printed = 0
    /\ stdout = <<>> /\ stderr = <<>> /\ status = Running /\ reads = 0

\* let config = Config::build(env::args()).unwrap_or_else(..), the Ok case
MainBuildOk ==
    /\ pc = "main"
    /\ Build(args, env).tag = "Ok"
    /\ built' = Build(args, env)
    /\ pc' = "run"
    /\ UNCHANGED <<args, env, file, query, contents, results, printed,
                   stdout, stderr, status, reads>>

\* the closure of unwrap_or_else: eprintln!, process::exit(1)
MainBuildErr ==
    /\ pc = "main"
    /\ Build(args, env).tag = "Err"
    /\ built' = Build(args, env)
    /\ stderr' = Eprintln(stderr, "Problem parsing arguments: ", Build(args, env).val)
    /\ status' = 1
    /\ pc' = "exited"
    /\ UNCHANGED <<args, env, file, query, contents, results, printed,
                   stdout, reads>>

\* run: fs::read_to_string(config.file_path)? succeeds
RunReadOk ==
    /\ pc = "run"
    /\ file.tag = "Ok"
    /\ reads' = reads + 1
    /\ contents' = file.val
    /\ pc' = "search"
    /\ UNCHANGED <<args, env, file, built, query, results, printed,
                   stdout, stderr, status>>

\* run: fs::read_to_string(config.file_path)? fails and run returns the error
RunReadErr ==
    /\ pc = "run"
    /\ file.tag = "Err"
    /\ reads' = reads + 1
    /\ pc' = "run_err"
    /\ UNCHANGED <<args, env, file, built, query, contents, results, printed,
                   stdout, stderr, status>>

\* run: let results = if config.ignore_case { .. } else { .. }
RunResults ==
    /\ pc = "search"
    /\ query' = built.val.query
    /\ results' = RunSearch(built.val, contents)
    /\ printed' = 0
    /\ pc' = "print"
    /\ UNCHANGED <<args, env, file, built, contents, stdout, stderr, status, reads>>

\* run: one turn of for line in results { println!("{line}"); }
RunPrintln ==
    /\ pc = "print"
    /\ printed < Len(results)
    /\ stdout' = Println(stdout, results[printed + 1])
    /\ printed' = printed + 1
    /\ UNCHANGED <<args, env, file, pc, built, query, contents, results,
                   stderr, status, reads>>

\* run: Ok(()), and main returns
RunOk ==
    /\ pc = "print"
    /\ printed = Len(results)
    /\ status' = 0
    /\ pc' = "exited"
    /\ UNCHANGED <<args, env, file, built, query, contents, results, printed,
                   stdout, stderr, reads>>

\* Mutant of MainRunErr: the error is reported and main returns normally.
MainRunErrNoExit ==
    /\ pc = "run_err"
    /\ stderr' = Eprintln(stderr, "Application error: ", file.val)
    /\ status' = 0
    /\ pc' = "exited"
    /\ UNCHANGED <<args, env, file, built, query, contents, results, printed,
                   stdout, reads>>

\* main: if let Err(e) = run(config) { eprintln!, process::exit(1) }
MainRunErr ==
    /\ pc = "run_err"
    /\ stderr' = Eprintln(stderr, "Application error: ", file.val)
    /\ status' = 1
    /\ pc' = "exited"
    /\ UNCHANGED <<args, env, file, built, query, contents, results, printed,
                   stdout, reads>>

Next ==
    \/ MainBuildOk
    \/ MainBuildErr
    \/ RunReadOk
    \/ RunReadErr
    \/ RunResults
    \/ RunPrintln
    \/ RunOk
    \/ MainRunErr

Spec == Init /\ [][Next]_vars

\* ------------------------------------------- what the claims are stated with
\* Positions of the line feeds of t, and the k-th of them.
LFPositions(t) == {i \in 1..Len(t) : t[i] = LF}

KthOf(idx, k) == CHOOSE i \in idx : Cardinality({j \in idx : j <= i}) = k

\* A text has one line per line feed, and one more for what follows the last
\* line feed when that is not empty.
RefLineCount(t) ==
    Cardinality(LFPositions(t))
        + (IF t # <<>> /\ t[Len(t)] # LF THEN 1 ELSE 0)

\* The k-th line: the text after the (k-1)-th line feed up to the k-th one,
\* less a carriage return that stands right before that line feed.
RefLine(t, k) ==
    LET nl == LFPositions(t)
        from == IF k = 1 THEN 1 ELSE KthOf(nl, k - 1) + 1
        closed == k <= Cardinality(nl)
        to == IF closed THEN KthOf(nl, k) - 1 ELSE Len(t)
        crlf == closed /\ to >= from /\ t[to] = CR
    IN SubSeq(t, from, IF crlf THEN to - 1 ELSE to)

RefLines(t) == [k \in 1..RefLineCount(t) |-> RefLine(t, k)]

\* q occurs in l as a contiguous run of characters.
Occurs(q, l) ==
    \E i \in 0..(Len(l) - Len(q)) : \A j \in 1..Len(q) : l[i + j] = q[j]

\* The lines of ls at the indices idx, in the order of ls.
Kept(ls, idx) == [k \in 1..Cardinality(idx) |-> ls[KthOf(idx, k)]]

RECURSIVE IsSubsequence(_, _)
\* a is b with some elements left out.
IsSubsequence(a, b) ==
    IF a = <<>> THEN TRUE
    ELSE IF b = <<>> THEN FALSE
    ELSE IF Head(a) = Head(b) THEN IsSubsequence(Tail(a), Tail(b))
    ELSE IsSubsequence(a, Tail(b))

RECURSIVE Join(_)
\* Every line of ls followed by a line feed.
Join(ls) == IF ls = <<>> THEN <<>> ELSE Head(ls) \o <<LF>> \o Join(Tail(ls))

HasLF(l) == \E i \in 1..Len(l) : l[i] = LF

\* C1: search(Q, T) is exactly the lines of T that contain Q as a contiguous
\* substring, compared as written, in T's order and once per occurrence in T;
\* it is never longer than T has lines and is empty when no line contains Q.
C1_SearchExact ==
    pc = "search" =>
        LET ls == RefLines(contents)
            idx == {i \in 1..Len(ls) : Occurs(query, ls[i])}
        IN /\ results = Kept(ls, idx)
           /\ Len(results) <= RefLineCount(contents)
           /\ (idx = {} => results = <<>>)

C1_Witness ==
    /\ pc = "search"
    /\ RefLineCount(contents) = 3
    /\ Len(results) = 2
    /\ results[1] = results[2]
    /\ query # <<>>

\* C2: search_case_insensitive(Q, T) is, in T's order, exactly the lines L of
\* T for which lowercase(L) contains lowercase(Q), each returned as the
\* original line of T and not as its lowercased form.
C2_CaseInsensitiveExact ==
    pc = "search_case_insensitive" =>
        LET ls == RefLines(contents)
            lq == ToLowercase(query)
            idx == {i \in 1..Len(ls) : Occurs(lq, ToLowercase(ls[i]))}
        IN results = Kept(ls, idx)

C2_Witness ==
    /\ pc = "search_case_insensitive"
    /\ query # ToLowercase(query)
    /\ Len(results) = 2
    /\ results[1] # ToLowercase(results[1])
    /\ results[2] = ToLowercase(results[2])

\* C3: with at least two arguments after the program name, Config::build
\* succeeds with file_path the last argument and query the one before it,
\* whatever they are; the program name is dropped and sets no flag.
C3_PositionalFromTheEnd ==
    (pc = "built" /\ Len(args) >= 3) =>
        /\ built.tag = "Ok"
        /\ built.val.file_path = args[Len(args)]
        /\ built.val.query = args[Len(args) - 1]
        /\ (env[1] = "unset"
              /\ \A i \in 2..(Len(args) - 2) : args[i] # IgnoreCaseFlag)
               => ~built.val.ignore_case

C3_Witness ==
    /\ pc = "built"
    /\ Len(args) = 4
    /\ args[1] = IgnoreCaseFlag
    /\ args[2] = <<"a">>
    /\ args[3] = <<>>
    /\ args[4] = IgnoreCaseFlag
    /\ built.tag = "Ok"
    /\ built.val.query = <<>>
    /\ built.val.file_path = IgnoreCaseFlag

\* C4: Config::build fails with "Didn't get a file path" exactly when nothing
\* follows the program name (the empty list included), with "Didn't get a
\* query string" exactly when one argument follows it, and succeeds otherwise.
C4_BuildErrors ==
    pc = "built" =>
        /\ (built.tag = "Err" /\ built.val = "Didn't get a file path")
               <=> Len(args) <= 1
        /\ (built.tag = "Err" /\ built.val = "Didn't get a query string")
               <=> Len(args) = 2
        /\ built.tag = "Ok" <=> Len(args) >= 3

C4_Witness ==
    /\ pc = "built"
    /\ Len(args) = 2
    /\ args[2] = IgnoreCaseFlag
    /\ built.tag = "Err"
    /\ built.val = "Didn't get a query string"

\* C5: after a successful Config::build, ignore_case is true if and only if
\* IGNORE_CASE is set, to any value, or an argument strictly between the
\* program name and the query is "--ignore-case".
C5_IgnoreCaseIffSetOrFlag ==
    (pc = "built" /\ built.tag = "Ok") =>
        (built.val.ignore_case <=>
            \/ env[1] # "unset"
            \/ \E i \in 2..(Len(args) - 2) : args[i] = IgnoreCaseFlag)

\* C6: a successful run prints exactly the lines of the search function that
\* config.ignore_case selects, one per output line, in order, nothing added,
\* and exits with status zero only after all of them are printed.
C6_SuccessfulRun ==
    LET expected ==
            IF built.val.ignore_case
            THEN search_case_insensitive(built.val.query, file.val)
            ELSE search(built.val.query, file.val)
    IN /\ pc = "print" =>
            /\ results = expected
            /\ stdout = Join(SubSeq(results, 1, printed))
            /\ status = Running
       /\ status = 0 =>
            /\ pc = "exited"
            /\ built.tag = "Ok" /\ file.tag = "Ok"
            /\ printed = Len(expected)
            /\ stdout = Join(expected)
            /\ stderr = <<>>
       /\ (pc = "exited" /\ built.tag = "Ok" /\ file.tag = "Ok") => status = 0

C6_Witness ==
    /\ status = 0
    /\ built.val.ignore_case
    /\ env[1] = "unset"
    /\ Len(results) = 1
    /\ stdout = <<"a", LF>>
    /\ search(built.val.query, contents) = <<>>

C8_CaseInsensitiveSuperset ==
    pc = "search" =>
        IsSubsequence(results, search_case_insensitive(query, contents))

\* C9: with the empty query both search functions return every line of T,
\* unchanged and in order, empty lines included: as many as T has lines.
C9_EmptyQueryAllLines ==
    (pc \in {"search", "search_case_insensitive"} /\ query = <<>>) =>
        /\ Len(results) = RefLineCount(contents)
        /\ \A k \in 1..Len(results) : results[k] = RefLine(contents, k)
        /\ contents = <<>> => results = <<>>

C9_Witness ==
    /\ pc = "search_case_insensitive"
    /\ query = <<>>
    /\ Len(results) = 3
    /\ results[2] = <<>>
    /\ results[3] = <<"A">>

\* C10: both functions split contents alike: a line feed, or a carriage
\* return and a line feed, ends a line and is no part of it; a terminator at
\* the very end adds no empty line; empty lines in the middle and a last line
\* without terminator are lines; no returned line holds a line feed and a
\* query holding one matches nothing.
C10_LineSplitting ==
    /\ Lines(contents) = RefLines(contents)
    /\ pc \in {"search", "search_case_insensitive"} =>
          /\ IsSubsequence(results, RefLines(contents))
          /\ \A k \in 1..Len(results) : ~HasLF(results[k])
          /\ HasLF(query) => results = <<>>
          /\ query = <<>> => results = RefLines(contents)

C10_Witness ==
    /\ pc = "search"
    /\ query = <<>>
    /\ contents = <<"a", CR, LF, LF>>
    /\ results = << <<"a">>, <<>> >>

=============================================================================
